---- MODULE Spec2Model ----
(***************************************************************************)
(* Model of plotly/figure_factory/_phylogenetic_tree.py: the class         *)
(* _Phylogenetic_Tree, its constructor, get_phylo_tree_traces and the      *)
(* axis layout it hands to the figure.                                     *)
(*                                                                         *)
(* A Bio.Phylo tree is a record [n, parent, name, branch_length]: clades   *)
(* are numbered 1..n, clade 1 is the root, parent[i] < i, and the children *)
(* of a clade (clade.clades) are listed in increasing number.  A name or a *)
(* branch length the Newick string leaves out is Python's None.  Branch    *)
(* lengths are floats in the program and small naturals here.              *)
(***************************************************************************)
EXTENDS Integers, Sequences, FiniteSets

\* ---------------------------------------------------------------- bounds
MaxNodes == 4
MaxLen == 1
MaxCalls == 2

\* ------------------------------------------------------ values and inputs
\* Python's None as a clade name.
None == "None"
\* The clade names the inputs draw from.
Names == {None, "A", "B", "unclassified"}
\* clade.branch_length: <<>> is None, <<v>> is the float v.
NoLength == <<>>
Lengths == {NoLength} \cup {<<v>> : v \in 0..MaxLen}
Orientations == {"top", "right", "bottom", "left"}

\* The parent vectors of the trees of n clades: the root has parent 0.
Parents(n) ==
  { q \in [1..n -> 0..(n - 1)] : \A i \in 1..n : q[i] < i /\ (i > 1 => q[i] >= 1) }

\* ------------------------------------------------------- sequence helpers
RECURSIVE Flatten(_)
Flatten(ss) == IF ss = <<>> THEN <<>> ELSE Head(ss) \o Flatten(Tail(ss))

Contains(s, x) == \E i \in 1..Len(s) : s[i] = x

\* list.index(x): the 0-based position of the first x.
Index(s, x) == (CHOOSE i \in 1..Len(s) : s[i] = x /\ \A j \in 1..(i - 1) : s[j] # x) - 1

\* list.sort() on numbers.
RECURSIVE Sorted(_)
Sorted(s) ==
  IF s = <<>> THEN <<>>
  ELSE LET m == CHOOSE i \in 1..Len(s) : \A j \in 1..Len(s) : s[i] <= s[j]
       IN <<s[m]>> \o Sorted(SubSeq(s, 1, m - 1) \o SubSeq(s, m + 1, Len(s)))

\* --------------------------------------------------------- Bio.Phylo tree
\* clade.clades
Clades(t, c) == SelectSeq([i \in 1..t.n |-> i], LAMBDA i : t.parent[i] = c)

\* clade.is_terminal()
IsTerminal(t, c) == Clades(t, c) = <<>>

\* tree.find_clades(order="level"): breadth first from the root.
RECURSIVE LevelTraverse(_, _, _)
LevelTraverse(t, queue, out) ==
  IF queue = <<>> THEN out
  ELSE LevelTraverse(t, Tail(queue) \o Clades(t, Head(queue)), Append(out, Head(queue)))

FindCladesLevel(t) == LevelTraverse(t, <<1>>, <<>>)

\* ------------------------------------------------- get_phylo_tree_traces
\* The first loop without its is_terminal() test: every clade's name.
TerminalNamesOfAllClades(t) ==
  LET order == FindCladesLevel(t) IN [i \in 1..Len(order) |-> t.name[order[i]]]

\* The first loop: the names of the terminal clades, in level order.
TerminalNames(t) ==
  LET terminals == SelectSeq(FindCladesLevel(t), LAMBDA c : IsTerminal(t, c))
  IN [i \in 1..Len(terminals) |-> t.name[terminals[i]]]

\* The (clade, subclade) pairs in the order the second loop visits them.
Edges(t) ==
  LET order == FindCladesLevel(t)
      subs(c) == LET cl == Clades(t, c) IN [j \in 1..Len(cl) |-> <<c, cl[j]>>]
  IN Flatten([i \in 1..Len(order) |-> subs(order[i])])

\* `branch_length if branch_length else 0`: None and 0 are both falsy.
LengthOrZero(bl) == IF bl # NoLength /\ bl[1] # 0 THEN bl[1] ELSE 0

\* self.leaves.index(name) raises ValueError when name is not in the list;
\* the lookup is made only for a truthy name.
LookupRaises(lv, nm) == nm # None /\ ~Contains(lv, nm)

\* `len(self.leaves) - self.leaves.index(name) if name else 0`
Rank(lv, nm) == IF nm # None THEN Len(lv) - Index(lv, nm) ELSE 0

X0(t, e) == LengthOrZero(t.branch_length[e[1]])
X1(t, e) == X0(t, e) + LengthOrZero(t.branch_length[e[2]])
Y(t, lv, e) == Rank(lv, t.name[e[1]])
YSub(t, lv, e) == Rank(lv, t.name[e[2]])

\* The trace dict of one (clade, subclade) pair.
Trace(x0, x1, y, y_sub, o) ==
  [type |-> "scatter",
   x |-> IF o \in {"top", "bottom"} THEN <<x0, x1>> ELSE <<y, y_sub>>,
   y |-> IF o \in {"top", "bottom"} THEN <<y, y_sub>> ELSE <<x0, x1>>,
   mode |-> "lines"]

NoReturn ==
  [status |-> "none", trace_list |-> <<>>, xvals |-> <<>>, yvals |-> <<>>,
   ordered_labels |-> <<>>, leaves |-> <<>>, raised_at |-> 0, raised_in |-> ""]

\* One call of get_phylo_tree_traces on an instance whose self.leaves is
\* self_leaves.  status "ok": the tuple returned, as it is at the return.
\* status "ValueError": the call raised in the raised_at-th pair of the second
\* loop, in the lookup of y (the clade) or of y_sub (the subclade); leaves is
\* self.leaves, which the first loop has already extended.
GetPhyloTreeTraces(self_leaves, t, o) ==
  LET ordered_labels == TerminalNames(t)
      lv == self_leaves \o ordered_labels
      edges == Edges(t)
      raises(k) == \/ LookupRaises(lv, t.name[edges[k][1]])
                   \/ LookupRaises(lv, t.name[edges[k][2]])
      bad == {k \in 1..Len(edges) : raises(k)}
  IN IF bad = {}
     THEN [status |-> "ok",
           trace_list |-> [k \in 1..Len(edges) |->
                             Trace(X0(t, edges[k]), X1(t, edges[k]),
                                   Y(t, lv, edges[k]), YSub(t, lv, edges[k]), o)],
           xvals |-> Flatten([k \in 1..Len(edges) |-> <<X0(t, edges[k]), X1(t, edges[k])>>]),
           yvals |-> Flatten([k \in 1..Len(edges) |-> <<Y(t, lv, edges[k]), YSub(t, lv, edges[k])>>]),
           ordered_labels |-> ordered_labels,
           leaves |-> lv,
           raised_at |-> 0,
           raised_in |-> ""]
     ELSE LET k == CHOOSE i \in bad : \A j \in bad : i <= j
          IN [NoReturn EXCEPT
                !.status = "ValueError",
                !.leaves = lv,
                !.raised_at = k,
                !.raised_in = IF LookupRaises(lv, t.name[edges[k][1]]) THEN "y" ELSE "y_sub"]

\* --------------------------------------------------------------- __init__
\* self.sign
Sign(o) ==
  [xaxis |-> IF o \in {"left", "bottom"} THEN 1 ELSE -1,
   yaxis |-> IF o \in {"right", "bottom"} THEN 1 ELSE -1]

\* range(l, r + 1, step) as a list
Range(l, r, step) == [k \in 1..((r - l) \div step + 1) |-> l + (k - 1) * step]

RECURSIVE CollectZeroVals(_, _, _, _)
CollectZeroVals(xv, yv, i, acc) ==
  IF i > Len(yv) THEN acc
  ELSE CollectZeroVals(xv, yv, i + 1,
         IF yv[i] = 0 /\ ~Contains(acc, xv[i]) THEN Append(acc, xv[i]) ELSE acc)

\* self.zero_vals: the x values of the points whose y value is 0, each once,
\* respaced when there are more of them than points, then sorted.
ZeroVals(xvals, yvals) ==
  LET zv == CollectZeroVals(xvals, yvals, 1, <<>>)
  IN IF Len(zv) > Len(yvals) + 1
     THEN LET l_border == Sorted(zv)[1]
              r_border == Sorted(zv)[Len(zv)]
          IN Sorted(Range(l_border, r_border, (r_border - l_border) \div Len(yvals)))
     ELSE Sorted(zv)

EmptyAxis == [tickvals |-> <<>>, ticktext |-> <<>>, tickmode |-> "", type |-> ""]

\* set_axis_layout(axis_key): the ticks go to the axis that carries the labels,
\* signed with the sign of axis_key; axis_key gets the axis defaults.
SetAxisLayout(lay, lbls, zv, sgn, o, axis_key) ==
  LET axis_key_labels == IF o \in {"left", "right"} THEN "yaxis" ELSE "xaxis"
      ticked == IF Len(lbls) # 0
                THEN [lay EXCEPT ![axis_key_labels].tickvals =
                                    [i \in 1..Len(zv) |-> zv[i] * sgn[axis_key]],
                                 ![axis_key_labels].ticktext = lbls,
                                 ![axis_key_labels].tickmode = "array"]
                ELSE lay
  IN [ticked EXCEPT ![axis_key].type = "linear"]

\* set_figure_layout: the x axis, then the y axis.
SetFigureLayout(lay, lbls, zv, sgn, o) ==
  SetAxisLayout(SetAxisLayout(lay, lbls, zv, sgn, o, "xaxis"), lbls, zv, sgn, o, "yaxis")

\* ------------------------------------------------------------------ state
VARIABLES
  tree,         \* Phylo.read(StringIO(newick_str), "newick")
  orientation,  \* self.orientation
  sign,         \* self.sign
  leaves,       \* self.leaves
  labels,       \* self.labels (<<>> while it is None)
  data,         \* self.data
  zero_vals,    \* self.zero_vals
  layout,       \* self.layout
  phase,        \* "new": __init__ has parsed the tree; "built"; "failed": __init__ raised
  ret,          \* what the last call of get_phylo_tree_traces returned or raised
  calls         \* calls of get_phylo_tree_traces that returned

vars == <<tree, orientation, sign, leaves, labels, data, zero_vals, layout, phase, ret, calls>>

\* __init__ up to the parsed tree (lines 67-88), for a Newick string whose
\* names, branch lengths and orientation are drawn from the given sets.
InitWith(names, lengths, orientations) ==
  /\ \E n \in 1..MaxNodes :
       \E p \in Parents(n), nm \in [1..n -> names], bl \in [1..n -> lengths] :
         tree = [n |-> n, parent |-> p, name |-> nm, branch_length |-> bl]
  /\ orientation \in orientations
  /\ sign = Sign(orientation)
  /\ leaves = <<>>
  /\ labels = <<>>
  /\ data = <<>>
  /\ zero_vals = <<>>
  /\ layout = [xaxis |-> EmptyAxis, yaxis |-> EmptyAxis]
  /\ phase = "new"
  /\ ret = NoReturn
  /\ calls = 0

Init == InitWith(Names, Lengths, Orientations)

\* The rest of __init__ (lines 90-122): the traces, the ticks, the layout.
Construct ==
  /\ phase = "new"
  /\ ret' = GetPhyloTreeTraces(leaves, tree, orientation)
  /\ LET r == ret'
     IN /\ leaves' = r.leaves
        /\ IF r.status = "ok"
           THEN /\ labels' = r.ordered_labels
                /\ zero_vals' = ZeroVals(r.xvals, r.yvals)
                /\ layout' = SetFigureLayout(layout, labels', zero_vals', sign, orientation)
                /\ data' = r.trace_list
                /\ phase' = "built"
                /\ calls' = 1
           ELSE /\ phase' = "failed"
                /\ UNCHANGED <<labels, zero_vals, layout, data, calls>>
  /\ UNCHANGED <<tree, orientation, sign>>

\* get_phylo_tree_traces called again on the instance, with its tree.
CallAgain ==
  /\ phase = "built"
  /\ calls < MaxCalls
  /\ ret' = GetPhyloTreeTraces(leaves, tree, orientation)
  /\ leaves' = ret'.leaves
  /\ calls' = IF ret'.status = "ok" THEN calls + 1 ELSE calls
  /\ UNCHANGED <<tree, orientation, sign, labels, data, zero_vals, layout, phase>>

\* set_axis_layout(axis_key) called on the instance: the ticks of the label
\* axis are rewritten with the sign of axis_key.
CallSetAxisLayout(axis_key) ==
  /\ phase = "built"
  /\ layout' = SetAxisLayout(layout, labels, zero_vals, sign, orientation, axis_key)
  /\ UNCHANGED <<tree, orientation, sign, leaves, labels, data, zero_vals, phase, ret, calls>>

\* set_figure_layout(width, height) called on the instance: both axes again,
\* the x axis first.  (Of self.layout the model keeps the two axes; the
\* figure's width, height and legend settings are not modelled.)
CallSetFigureLayout ==
  /\ phase = "built"
  /\ layout' = SetFigureLayout(layout, labels, zero_vals, sign, orientation)
  /\ UNCHANGED <<tree, orientation, sign, leaves, labels, data, zero_vals, phase, ret, calls>>

Next ==
  \/ Construct
  \/ CallAgain
  \/ \E axis_key \in {"xaxis", "yaxis"} : CallSetAxisLayout(axis_key)
  \/ CallSetFigureLayout

Spec == Init /\ [][Next]_vars

\* The trees of the default orientation with no branch lengths: what the rank
\* lookups read is the names alone.
InitNames == InitWith(Names, {NoLength}, {"right"})

SpecNames == InitNames /\ [][Next]_vars

\* ------------------------------------------------------------- properties
\* What the specification says of a layout, stated on the tree itself.

\* The sum of the branch lengths on the path from the root to clade c, a
\* missing length counting 1; the root's own length is left out.
RECURSIVE PathDepth(_, _)
PathDepth(t, c) ==
  IF c = 1 THEN 0
  ELSE PathDepth(t, t.parent[c])
       + (IF t.branch_length[c] = NoLength THEN 1 ELSE t.branch_length[c][1])

\* The terminal clades under c in depth-first order, children in their order.
RECURSIVE DepthFirstLeaves(_, _)
DepthFirstLeaves(t, c) ==
  IF IsTerminal(t, c) THEN <<c>>
  ELSE LET cl == Clades(t, c)
       IN Flatten([j \in 1..Len(cl) |-> DepthFirstLeaves(t, cl[j])])

RECURSIVE SeqSum(_)
SeqSum(s) == IF s = <<>> THEN 0 ELSE Head(s) + SeqSum(Tail(s))

TerminalSet(t) == {c \in 1..t.n : IsTerminal(t, c)}

\* The clades with children whose name is given and is no terminal's name.
MisnamedClades(t) ==
  {c \in 1..t.n : /\ ~IsTerminal(t, c)
                  /\ t.name[c] # None
                  /\ t.name[c] \notin {t.name[l] : l \in TerminalSet(t)}}

\* The depth and rank coordinates the k-th pair's trace was built from.
EmittedDepths(r, k) == <<r.xvals[2 * k - 1], r.xvals[2 * k]>>
EmittedRanks(r, k) == <<r.yvals[2 * k - 1], r.yvals[2 * k]>>

\* The rank emitted for clade c as a subclade (c is not the root).
EmittedRankOf(r, t, c) ==
  LET k == CHOOSE j \in 1..Len(Edges(t)) : Edges(t)[j][2] = c IN r.yvals[2 * k]

\* The straight pieces a trace draws: one between each two successive points.
SegmentsOf(tr) ==
  [i \in 1..(Len(tr.x) - 1) |->
     [x0 |-> tr.x[i], y0 |-> tr.y[i], x1 |-> tr.x[i + 1], y1 |-> tr.y[i + 1]]]

\* The axis that carries the leaf labels.
LabelAxis(o) == IF o \in {"left", "right"} THEN "yaxis" ELSE "xaxis"

Returned == ret.status = "ok"

\* C1: for every pair, the depth emitted for the clade and for the subclade is
\* the sum of the branch lengths from the root (missing counts 1, 0 counts 0),
\* and the root's depth is 0.
C1_DepthIsPathSum ==
  Returned =>
    \A k \in 1..Len(Edges(tree)) :
      EmittedDepths(ret, k) = <<PathDepth(tree, Edges(tree)[k][1]),
                                PathDepth(tree, Edges(tree)[k][2])>>

\* C2: the rank emitted for a clade with children is the arithmetic mean of
\* the ranks emitted for its children.
C2_InternalRankIsMean ==
  Returned =>
    \A k \in 1..Len(Edges(tree)) :
      LET c == Edges(tree)[k][1]
          cl == Clades(tree, c)
      IN ret.yvals[2 * k - 1] * Len(cl)
           = SeqSum([j \in 1..Len(cl) |-> EmittedRankOf(ret, tree, cl[j])])

\* C3: every parent-to-child pair is drawn as two segments, an elbow: along
\* the rank axis at the parent's depth, then along the depth axis at the
\* child's rank; none is diagonal.
C3_TwoSegmentElbow ==
  (phase = "built" /\ calls = 1) =>
    \A k \in 1..Len(Edges(tree)) :
      LET segs == SegmentsOf(data[k])
          d == EmittedDepths(ret, k)
          rk == EmittedRanks(ret, k)
          along(a, b) == IF orientation \in {"top", "bottom"}
                         THEN [x0 |-> a[1], y0 |-> a[2], x1 |-> b[1], y1 |-> b[2]]
                         ELSE [x0 |-> a[2], y0 |-> a[1], x1 |-> b[2], y1 |-> b[1]]
      IN /\ Len(segs) = 2
         /\ \A i \in 1..Len(segs) : segs[i].x0 = segs[i].x1 \/ segs[i].y0 = segs[i].y1
         /\ segs[1] = along(<<d[1], rk[1]>>, <<d[1], rk[2]>>)
         /\ segs[2] = along(<<d[1], rk[2]>>, <<d[2], rk[2]>>)

\* C4: the ordered labels and the leaf names returned are the same sequence,
\* of length N, the number of terminal clades, or N + 1 with "unclassified"
\* last when the root has a child of that name.
C4_LabelsMatchLeaves ==
  Returned =>
    LET N == Cardinality(TerminalSet(tree))
        unclassified == \E c \in 1..tree.n :
                          tree.parent[c] = 1 /\ tree.name[c] = "unclassified"
    IN /\ ret.ordered_labels = ret.leaves
       /\ Len(ret.ordered_labels) = IF unclassified THEN N + 1 ELSE N
       /\ unclassified => ret.ordered_labels[Len(ret.ordered_labels)] = "unclassified"

\* C5: the layout of a tree with orientation 'left' has the depths of its
\* layout with orientation 'right' negated, and the same ranks.
C5_OrientationSymmetry ==
  (phase = "built" /\ calls = 1 /\ orientation = "left") =>
    LET right == GetPhyloTreeTraces(<<>>, tree, "right")
    IN \A k \in 1..Len(Edges(tree)) :
         /\ EmittedRanks(ret, k) = EmittedRanks(right, k)
         /\ EmittedDepths(ret, k) = <<0 - EmittedDepths(right, k)[1],
                                      0 - EmittedDepths(right, k)[2]>>
         /\ data[k].x = right.trace_list[k].x
         /\ data[k].y = <<0 - right.trace_list[k].y[1], 0 - right.trace_list[k].y[2]>>

\* C6: the tickvals of the label axis, paired with ticktext = the ordered
\* labels, are the ranks of the leaves times the sign of that axis.
C6_TicksAreLeafRanks ==
  phase = "built" =>
    /\ layout[LabelAxis(orientation)].ticktext = labels
    /\ layout[LabelAxis(orientation)].tickvals =
         [i \in 1..Len(labels) |-> Rank(labels, labels[i]) * sign[LabelAxis(orientation)]]

\* C7: for 'left' and 'right' a trace has the depths on x and the ranks on y,
\* for 'top' and 'bottom' the ranks on x and the depths on y.
C7_DepthOnXForLeftRight ==
  (phase = "built" /\ calls = 1) =>
    \A k \in 1..Len(data) :
      IF orientation \in {"left", "right"}
      THEN data[k].x = EmittedDepths(ret, k) /\ data[k].y = EmittedRanks(ret, k)
      ELSE data[k].x = EmittedRanks(ret, k) /\ data[k].y = EmittedDepths(ret, k)

\* C8: the i-th leaf a depth-first traversal reaches has rank i, from 0, and
\* the ordered labels list the leaves in that order.
C8_LeafRankIsDepthFirstIndex ==
  Returned =>
    LET dfs == DepthFirstLeaves(tree, 1)
    IN /\ ret.ordered_labels = [i \in 1..Len(dfs) |-> tree.name[dfs[i]]]
       /\ \A i \in 1..Len(dfs) :
            dfs[i] # 1 => EmittedRankOf(ret, tree, dfs[i]) = i - 1

\* C9: a call of get_phylo_tree_traces after the first returns the labels,
\* the leaf names and the traces the call before it returned.
C9_SameResultEveryCall ==
  [][(phase = "built" /\ calls' = calls + 1) =>
       /\ ret'.ordered_labels = ret.ordered_labels
       /\ ret'.leaves = ret.leaves
       /\ ret'.trace_list = ret.trace_list]_vars

\* The first pair of the second loop that has a misnamed clade on either side.
FirstMisnamedPair(t) ==
  LET touched == {k \in 1..Len(Edges(t)) :
                    Edges(t)[k][1] \in MisnamedClades(t) \/ Edges(t)[k][2] \in MisnamedClades(t)}
  IN CHOOSE k \in touched : \A j \in touched : k <= j

\* Both forms of C10 share this: a result only for trees without a misnamed
\* clade, and otherwise a ValueError that leaves no traces, labels or figure.
RaisesOnMisnamed ==
  /\ Returned => MisnamedClades(tree) = {}
  /\ (phase # "new" /\ MisnamedClades(tree) # {}) =>
       /\ ret.status = "ValueError"
       /\ phase = "failed"
       /\ ret.trace_list = <<>> /\ ret.ordered_labels = <<>>
       /\ data = <<>> /\ labels = <<>>

\* C10 as claimed: get_phylo_tree_traces returns only for trees whose clades
\* with children are unnamed or named like a terminal; with a misnamed clade
\* the lookup raises when the first pair of such a clade's own children is
\* processed.
C10_RaisesAtOwnFirstPair ==
  /\ RaisesOnMisnamed
  /\ (phase # "new" /\ MisnamedClades(tree) # {}) =>
       \E c \in MisnamedClades(tree) :
         Edges(tree)[ret.raised_at] = <<c, Clades(tree, c)[1]>>

\* C10 as amended: the lookup raises at the first pair, in loop order, that has
\* a misnamed clade on either side: in the lookup of y at the root's first
\* pair when the root is misnamed, else in the lookup of y_sub at the pair
\* that leads from its parent to a misnamed clade.
C10_RaisesAtFirstMisnamedPair ==
  /\ RaisesOnMisnamed
  /\ (phase # "new" /\ MisnamedClades(tree) # {}) =>
       /\ ret.raised_at = FirstMisnamedPair(tree)
       /\ IF 1 \in MisnamedClades(tree)
          THEN ret.raised_at = 1 /\ ret.raised_in = "y"
          ELSE /\ ret.raised_in = "y_sub"
               /\ Edges(tree)[ret.raised_at][2] \in MisnamedClades(tree)

\* A misnamed clade below an unnamed root: the call raised at the pair from
\* its parent, in the lookup of y_sub.
C10_Witness ==
  /\ phase = "failed"
  /\ 1 \notin MisnamedClades(tree)
  /\ ret.raised_in = "y_sub"
  /\ Edges(tree)[ret.raised_at][1] \notin MisnamedClades(tree)
  /\ Edges(tree)[ret.raised_at][2] \in MisnamedClades(tree)

====
